---------------------------- MODULE Spec2Model ----------------------------
(***************************************************************************)
(* A model of LouiEriksson::Maths::Conversions (src/Conversions.hpp).      *)
(*                                                                         *)
(* The library is a set of static, pure functions over constant tables.   *)
(* The state of the model is the three families of tables (alias lookup,  *)
(* canonical symbol, conversion factor) and the calling thread: the call   *)
(* it has made last (which function, its arguments) and how it ended.     *)
(*                                                                         *)
(* conversion_scalar_t (long double) is modelled as an exact rational      *)
(* number: a sign and two arbitrary-size naturals.  The naturals are kept *)
(* as sequences of base-10000 digits, least significant first, because    *)
(* the factor tables and the Planck temperature do not fit a machine      *)
(* integer.  Every decimal literal of the source is taken at its written  *)
(* decimal value.  Rounding of the floating-point type is not modelled:   *)
(* a property that holds here holds "in exact arithmetic".                *)
(*                                                                         *)
(* std::string is modelled as a TLA+ string; a character outside ASCII is *)
(* written <U+XXXX> (its code point), which keeps distinct strings         *)
(* distinct.                                                               *)
(***************************************************************************)
EXTENDS Integers, Sequences, FiniteSets, TLC

-----------------------------------------------------------------------------
(* Natural numbers of any size: base-10000 digits, least significant first, *)
(* no leading (most significant) zero digit; zero is the empty sequence.    *)
(* Sums, differences and products split their operands in halves, so the   *)
(* depth of an evaluation grows with the logarithm of the length.          *)

Base == 10000

Zeros(n) == [i \in 1..n |-> 0]

(* a, extended with leading zero digits to length n >= Len(a) *)
Pad(a, n) == a \o Zeros(n - Len(a))

(* a without its leading zero digits *)
Strip(a) ==
  LET nz == {i \in 1..Len(a) : a[i] # 0}
  IN  IF nz = {} THEN <<>>
      ELSE SubSeq(a, 1, CHOOSE i \in nz : \A j \in nz : j <= i)

(* a + b + c for a, b of one length >= 1 and a carry c: the digits of the  *)
(* sum over that length, and the carry out.                                *)
RECURSIVE AddC(_, _, _)
AddC(a, b, c) ==
  IF Len(a) = 1
  THEN LET s == a[1] + b[1] + c
       IN  [d |-> <<s % Base>>, c |-> s \div Base]
  ELSE LET h  == Len(a) \div 2
           lo == AddC(SubSeq(a, 1, h), SubSeq(b, 1, h), c)
           hi == AddC(SubSeq(a, h + 1, Len(a)), SubSeq(b, h + 1, Len(a)), lo.c)
       IN  [d |-> lo.d \o hi.d, c |-> hi.c]

NatAdd(a, b) ==
  LET n == IF Len(a) < Len(b) THEN Len(b) ELSE Len(a)
  IN  IF n = 0 THEN <<>>
      ELSE LET r == AddC(Pad(a, n), Pad(b, n), 0)
           IN  IF r.c = 0 THEN r.d ELSE r.d \o <<r.c>>

(* a - b - c for a, b of one length >= 1 and a borrow c: the digits of the *)
(* difference over that length, and the borrow out.                        *)
RECURSIVE SubB(_, _, _)
SubB(a, b, c) ==
  IF Len(a) = 1
  THEN LET d == a[1] - b[1] - c
       IN  IF d < 0 THEN [d |-> <<d + Base>>, c |-> 1] ELSE [d |-> <<d>>, c |-> 0]
  ELSE LET h  == Len(a) \div 2
           lo == SubB(SubSeq(a, 1, h), SubSeq(b, 1, h), c)
           hi == SubB(SubSeq(a, h + 1, Len(a)), SubSeq(b, h + 1, Len(a)), lo.c)
       IN  [d |-> lo.d \o hi.d, c |-> hi.c]

(* a - b for a >= b *)
NatSub(a, b) ==
  IF a = <<>> THEN <<>> ELSE Strip(SubB(a, Pad(b, Len(a)), 0).d)

(* a * d + c for a of length >= 1, a digit d and a carry c: the digits of  *)
(* the result over that length, and the carry out.                         *)
RECURSIVE MulDigit(_, _, _)
MulDigit(a, d, c) ==
  IF Len(a) = 1
  THEN LET p == a[1] * d + c
       IN  [d |-> <<p % Base>>, c |-> p \div Base]
  ELSE LET h  == Len(a) \div 2
           lo == MulDigit(SubSeq(a, 1, h), d, c)
           hi == MulDigit(SubSeq(a, h + 1, Len(a)), d, lo.c)
       IN  [d |-> lo.d \o hi.d, c |-> hi.c]

RECURSIVE NatMul(_, _)
NatMul(a, b) ==
  IF a = <<>> \/ b = <<>> THEN <<>>
  ELSE IF Len(a) = 1
  THEN LET r == MulDigit(b, a[1], 0)
       IN  IF r.c = 0 THEN r.d ELSE r.d \o <<r.c>>
  ELSE LET h  == Len(a) \div 2
           lo == NatMul(Strip(SubSeq(a, 1, h)), b)
           hi == NatMul(SubSeq(a, h + 1, Len(a)), b)
       IN  NatAdd(lo, Zeros(h) \o hi)

(* -1, 0 or 1 as a < b, a = b or a > b *)
NatCmp(a, b) ==
  IF Len(a) < Len(b) THEN -1
  ELSE IF Len(a) > Len(b) THEN 1
  ELSE LET ne == {i \in 1..Len(a) : a[i] # b[i]}
       IN  IF ne = {} THEN 0
           ELSE LET m == CHOOSE i \in ne : \A j \in ne : j <= i
                IN  IF a[m] < b[m] THEN -1 ELSE 1

Reverse(s) == [i \in 1..Len(s) |-> s[Len(s) + 1 - i]]

(* 10^n *)
Pow10(n) ==
  Zeros(n \div 4)
    \o <<CASE n % 4 = 0 -> 1 [] n % 4 = 1 -> 10 [] n % 4 = 2 -> 100 [] OTHER -> 1000>>

-----------------------------------------------------------------------------
(* conversion_scalar_t: the rational (-1)^neg * num / den, den > 0.  The    *)
(* fraction is reduced by the zero digits its two terms share at the low   *)
(* end, no further; values are compared by cross-multiplication.           *)

(* The number of zero digits at the low end of a. *)
LowZeros(a) ==
  LET nz == {i \in 1..Len(a) : a[i] # 0}
  IN  IF nz = {} THEN 0 ELSE (CHOOSE i \in nz : \A j \in nz : i <= j) - 1

Scalar(neg, num, den) ==
  LET a == LowZeros(num)
      b == LowZeros(den)
      k == IF a < b THEN a ELSE b
  IN  [neg |-> neg /\ num # <<>>,
       num |-> SubSeq(num, k + 1, Len(num)),
       den |-> IF num = <<>> THEN den ELSE SubSeq(den, k + 1, Len(den))]

(* A decimal literal: the digits of the literal without its point, written *)
(* in groups of four from the right, and the number of digits that follow  *)
(* the point.  272.15 is Lit(<<2, 7215>>, 2).                              *)
Lit(groups, scale) == Scalar(FALSE, Strip(Reverse(groups)), Pow10(scale))

Neg(x) == Scalar(~x.neg, x.num, x.den)

(* The sign-magnitude sum (-1)^an * a + (-1)^bn * b of two naturals, as a  *)
(* scalar over the denominator den.                                        *)
SignedSum(an, a, bn, b, den) ==
  IF an = bn THEN Scalar(an, NatAdd(a, b), den)
  ELSE IF NatCmp(a, b) >= 0 THEN Scalar(an, NatSub(a, b), den)
  ELSE Scalar(bn, NatSub(b, a), den)

Add(x, y) ==
  SignedSum(x.neg, NatMul(x.num, y.den), y.neg, NatMul(y.num, x.den),
            NatMul(x.den, y.den))

Sub(x, y) == Add(x, Neg(y))

Mul(x, y) ==
  Scalar(x.neg # y.neg, NatMul(x.num, y.num), NatMul(x.den, y.den))

(* x / y for y # 0 *)
Div(x, y) ==
  Scalar(x.neg # y.neg, NatMul(x.num, y.den), NatMul(x.den, y.num))

(* -1, 0 or 1 as x < y, x = y or x > y *)
Cmp(x, y) ==
  LET l == NatMul(x.num, y.den)
      r == NatMul(y.num, x.den)
  IN  IF x.neg /\ ~y.neg THEN -1
      ELSE IF ~x.neg /\ y.neg THEN 1
      ELSE IF x.neg THEN NatCmp(r, l)
      ELSE NatCmp(l, r)

Equal(x, y) == Cmp(x, y) = 0

Less(x, y) == Cmp(x, y) < 0

LessEq(x, y) == Cmp(x, y) <= 0

(* std::max(a, b): (a < b) ? b : a *)
Max(a, b) == IF Less(a, b) THEN b ELSE a

(* std::min(a, b): (b < a) ? b : a *)
Min(a, b) == IF Less(b, a) THEN b ELSE a

(* x itself where std::abs(x) is meant. *)
Abs_Identity(x) == x

(* std::abs(x) *)
Abs(x) == Scalar(FALSE, x.num, x.den)

-----------------------------------------------------------------------------
(* The nine categories: each enumeration (the enumerators carry their C++  *)
(* values, 0 upwards) and the initializer lists of its static tables, item *)
(* by item in source order.                                                *)

(* struct Speed, lines 31-39 *)
KilometreHour == 0
FeetSecond == 1
MileHour == 2
Knot == 3
MetreSecond == 4
Mach == 5
Lightspeed == 6

Speed_Unit == {KilometreHour, FeetSecond, MileHour, Knot, MetreSecond, Mach, Lightspeed}

Speed_s_Lookup == <<
  <<"k/h", KilometreHour>>,
  <<"km/h", KilometreHour>>,
  <<"kph", KilometreHour>>,
  <<"f/s", FeetSecond>>,
  <<"fps", FeetSecond>>,
  <<"mi/h", MileHour>>,
  <<"mph", MileHour>>,
  <<"kn", Knot>>,
  <<"kt", Knot>>,
  <<"knot", Knot>>,
  <<"knots", Knot>>,
  <<"nmi/h", Knot>>,
  <<"nmiph", Knot>>,
  <<"m/s", MetreSecond>>,
  <<"mps", MetreSecond>>,
  <<"mach", Mach>>,
  <<"c", Lightspeed>>
>>

Speed_s_Symbol == <<
  <<KilometreHour, "km/h">>,
  <<FeetSecond, "f/s">>,
  <<MileHour, "mph">>,
  <<Knot, "kn">>,
  <<MetreSecond, "m/s">>,
  <<Mach, "mach">>,
  <<Lightspeed, "c">>
>>

Speed_s_Conversion == <<
  <<KilometreHour, Lit(<<277, 7778>>, 7)>>,
  <<FeetSecond, Lit(<<3048>>, 4)>>,
  <<MileHour, Lit(<<4, 4704>>, 5)>>,
  <<Knot, Lit(<<51, 4444>>, 6)>>,
  <<MetreSecond, Lit(<<1>>, 0)>>,
  <<Mach, Lit(<<3, 4029>>, 2)>>,
  <<Lightspeed, Lit(<<2, 9979, 2458>>, 0)>>
>>

(* struct Distance, lines 126-139 *)
Millimetre == 0
Centimetre == 1
Inch == 2
Foot == 3
Yard == 4
Metre == 5
Kilometre == 6
Mile == 7
NauticalMile == 8
AstronomicalUnit == 9
Lightyear == 10
Parsec == 11

Distance_Unit == {Millimetre, Centimetre, Inch, Foot, Yard, Metre, Kilometre, Mile, NauticalMile, AstronomicalUnit, Lightyear, Parsec}

Distance_s_Lookup == <<
  <<"mm", Millimetre>>,
  <<"cm", Centimetre>>,
  <<"\"", Inch>>,
  <<"in", Inch>>,
  <<"f", Foot>>,
  <<"'", Foot>>,
  <<"ft", Foot>>,
  <<"yards", Yard>>,
  <<"yard", Yard>>,
  <<"yd", Yard>>,
  <<"m", Metre>>,
  <<"km", Kilometre>>,
  <<"mi", Mile>>,
  <<"nmi", NauticalMile>>,
  <<"au", AstronomicalUnit>>,
  <<"ly", Lightyear>>,
  <<"lightyear", Lightyear>>,
  <<"lightyears", Lightyear>>,
  <<"pc", Parsec>>,
  <<"parsec", Parsec>>,
  <<"parsecs", Parsec>>
>>

Distance_s_Symbol == <<
  <<Millimetre, "mm">>,
  <<Centimetre, "cm">>,
  <<Inch, "in">>,
  <<Foot, "ft">>,
  <<Yard, "yd">>,
  <<Metre, "m">>,
  <<Kilometre, "km">>,
  <<Mile, "mi">>,
  <<NauticalMile, "nmi">>,
  <<AstronomicalUnit, "au">>,
  <<Lightyear, "ly">>,
  <<Parsec, "pc">>
>>

Distance_s_Conversion == <<
  <<Millimetre, Lit(<<1>>, 3)>>,
  <<Centimetre, Lit(<<1>>, 2)>>,
  <<Inch, Lit(<<254>>, 4)>>,
  <<Foot, Lit(<<3047, 9999>>, 8)>>,
  <<Yard, Lit(<<9144>>, 4)>>,
  <<Metre, Lit(<<1>>, 0)>>,
  <<Kilometre, Lit(<<1000>>, 0)>>,
  <<Mile, Lit(<<160, 9344>>, 3)>>,
  <<NauticalMile, Lit(<<1852>>, 0)>>,
  <<AstronomicalUnit, Lit(<<1495, 9787, 0700>>, 0)>>,
  <<Lightyear, Lit(<<9460, 7304, 7258, 0800>>, 0)>>,
  <<Parsec, Lit(<<3, 0856, 7758, 1000, 0000>>, 0)>>
>>

(* struct Rotation, lines 276-281 *)
Gradian == 0
Degree == 1
Radian == 2
Turn == 3

Rotation_Unit == {Gradian, Degree, Radian, Turn}

Rotation_s_Lookup == <<
  <<"grad", Gradian>>,
  <<"gradians", Gradian>>,
  <<"<U+00B0>", Degree>>,
  <<"d", Degree>>,
  <<"deg", Degree>>,
  <<"degree", Degree>>,
  <<"degrees", Degree>>,
  <<"rad", Radian>>,
  <<"radians", Radian>>,
  <<"turns", Turn>>,
  <<"turn", Turn>>,
  <<"cycle", Turn>>,
  <<"pla", Turn>>,
  <<"rev", Turn>>,
  <<"tr", Turn>>
>>

Rotation_s_Symbol == <<
  <<Gradian, "grad">>,
  <<Degree, "deg">>,
  <<Radian, "rad">>,
  <<Turn, "tr">>
>>

Rotation_s_Conversion == <<
  <<Gradian, Lit(<<9>>, 1)>>,
  <<Degree, Lit(<<1>>, 0)>>,
  <<Radian, Lit(<<572, 9578>>, 5)>>,
  <<Turn, Lit(<<360>>, 0)>>
>>

(* struct Time, lines 363-371 *)
Nanosecond == 0
Microsecond == 1
Millisecond == 2
Second == 3
Minute == 4
Hour == 5
Day == 6

Time_Unit == {Nanosecond, Microsecond, Millisecond, Second, Minute, Hour, Day}

Time_s_Lookup == <<
  <<"nanosecond", Nanosecond>>,
  <<"nanoseconds", Nanosecond>>,
  <<"ns", Nanosecond>>,
  <<"microsecond", Microsecond>>,
  <<"microseconds", Microsecond>>,
  <<"<U+00B5>s", Microsecond>>,
  <<"millisecond", Millisecond>>,
  <<"milliseconds", Millisecond>>,
  <<"ms", Millisecond>>,
  <<"s", Second>>,
  <<"sec", Second>>,
  <<"seconds", Second>>,
  <<"secs", Second>>,
  <<"m", Minute>>,
  <<"min", Minute>>,
  <<"minute", Minute>>,
  <<"minutes", Minute>>,
  <<"h", Hour>>,
  <<"hour", Hour>>,
  <<"hours", Hour>>,
  <<"hr", Hour>>,
  <<"d", Day>>,
  <<"day", Day>>,
  <<"days", Day>>
>>

Time_s_Symbol == <<
  <<Nanosecond, "ns">>,
  <<Microsecond, "<U+00B5>s">>,
  <<Millisecond, "ms">>,
  <<Second, "s">>,
  <<Minute, "m">>,
  <<Hour, "h">>,
  <<Day, "d">>
>>

Time_s_Conversion == <<
  <<Nanosecond, Lit(<<1>>, 9)>>,
  <<Microsecond, Lit(<<1>>, 6)>>,
  <<Millisecond, Lit(<<1>>, 3)>>,
  <<Second, Lit(<<1>>, 0)>>,
  <<Minute, Lit(<<60>>, 0)>>,
  <<Hour, Lit(<<3600>>, 0)>>,
  <<Day, Lit(<<8, 6400>>, 0)>>
>>

(* struct Temperature, lines 465-469 *)
Celsius == 0
Fahrenheit == 1
Kelvin == 2

Temperature_Unit == {Celsius, Fahrenheit, Kelvin}

Temperature_s_Lookup == <<
  <<"celsius", Celsius>>,
  <<"c", Celsius>>,
  <<"<U+00B0>c", Celsius>>,
  <<"<U+00B0>C", Celsius>>,
  <<"fahrenheit", Fahrenheit>>,
  <<"f", Fahrenheit>>,
  <<"<U+00B0>f", Fahrenheit>>,
  <<"<U+00B0>F", Fahrenheit>>,
  <<"kelvin", Kelvin>>,
  <<"k", Kelvin>>,
  <<"K", Kelvin>>
>>

Temperature_s_Symbol == <<
  <<Celsius, "C">>,
  <<Fahrenheit, "F">>,
  <<Kelvin, "K">>
>>

(* struct Pressure, lines 579-605 *)
DyneSquareCentimetre == 0
MilliTorr == 1
Pascal == 2
MillimetreWater == 3
PoundSquareFoot == 4
Hectopascal == 5
CentimetreWater == 6
MillimetreMercury == 7
InchWater == 8
OunceSquareInch == 9
Decibel == 10
Kilopascal == 11
CentimetreMercury == 12
FeetWater == 13
InchMercury == 14
PoundSquareInch == 15
MetreWater == 16
TonneSquareFoot_Short == 17
TechnicalAtmosphere == 18
KilogramSquareCentimetre == 19
Bar == 20
Atmosphere == 21
Megapascal == 22
TonneSquareInch_Short == 23
TonneSquareInch_Long == 24

Pressure_Unit == {DyneSquareCentimetre, MilliTorr, Pascal, MillimetreWater, PoundSquareFoot, Hectopascal, CentimetreWater, MillimetreMercury, InchWater, OunceSquareInch, Decibel, Kilopascal, CentimetreMercury, FeetWater, InchMercury, PoundSquareInch, MetreWater, TonneSquareFoot_Short, TechnicalAtmosphere, KilogramSquareCentimetre, Bar, Atmosphere, Megapascal, TonneSquareInch_Short, TonneSquareInch_Long}

Pressure_s_Lookup == <<
  <<"dyn/cm<U+00B2>", DyneSquareCentimetre>>,
  <<"dyn/cm^2", DyneSquareCentimetre>>,
  <<"dyn/cm2", DyneSquareCentimetre>>,
  <<"mTorr", MilliTorr>>,
  <<"pascals", Pascal>>,
  <<"pascal", Pascal>>,
  <<"pa", Pascal>>,
  <<"Pa", Pascal>>,
  <<"N/m<U+00B2>", Pascal>>,
  <<"N/m^2", Pascal>>,
  <<"N/m2", Pascal>>,
  <<"mmH2O", MillimetreWater>>,
  <<"psf", PoundSquareFoot>>,
  <<"millibars", Hectopascal>>,
  <<"millibar", Hectopascal>>,
  <<"mbar", Hectopascal>>,
  <<"hPa", Hectopascal>>,
  <<"hectopascals", Hectopascal>>,
  <<"hectopascal", Hectopascal>>,
  <<"cmH2O", CentimetreWater>>,
  <<"mmHg", MillimetreMercury>>,
  <<"inH20", InchWater>>,
  <<"oz/in<U+00B2>", OunceSquareInch>>,
  <<"oz/in^2", OunceSquareInch>>,
  <<"oz/in2", OunceSquareInch>>,
  <<"dB", Decibel>>,
  <<"decibel", Decibel>>,
  <<"decibels", Decibel>>,
  <<"kpa", Kilopascal>>,
  <<"kPa", Kilopascal>>,
  <<"kilopascals", Kilopascal>>,
  <<"kilopascal", Kilopascal>>,
  <<"cmHg", CentimetreMercury>>,
  <<"ftH2O", FeetWater>>,
  <<"inHg", InchMercury>>,
  <<"psi", PoundSquareInch>>,
  <<"mH2O", MetreWater>>,
  <<"tsf", TonneSquareFoot_Short>>,
  <<"tsf_us", TonneSquareFoot_Short>>,
  <<"tsf_short", TonneSquareFoot_Short>>,
  <<"at", TechnicalAtmosphere>>,
  <<"kg/cm<U+00B2>", KilogramSquareCentimetre>>,
  <<"kg/cm^2", KilogramSquareCentimetre>>,
  <<"kg/cm2", KilogramSquareCentimetre>>,
  <<"bars", Bar>>,
  <<"bar", Bar>>,
  <<"atmospheres", Atmosphere>>,
  <<"atmosphere", Atmosphere>>,
  <<"atm", Atmosphere>>,
  <<"MPa", Megapascal>>,
  <<"megapascals", Megapascal>>,
  <<"megapascal", Megapascal>>,
  <<"tsi", TonneSquareInch_Short>>,
  <<"tsi_us", TonneSquareInch_Short>>,
  <<"tsi_short", TonneSquareInch_Short>>,
  <<"tsi_uk", TonneSquareInch_Long>>,
  <<"tsi_long", TonneSquareInch_Long>>
>>

Pressure_s_Symbol == <<
  <<DyneSquareCentimetre, "dyn/cm2">>,
  <<MilliTorr, "mTorr">>,
  <<Pascal, "Pa">>,
  <<MillimetreWater, "mmH2O">>,
  <<PoundSquareFoot, "psf">>,
  <<Hectopascal, "hPa">>,
  <<CentimetreWater, "cmH2O">>,
  <<MillimetreMercury, "mmHg">>,
  <<InchWater, "inH2O">>,
  <<OunceSquareInch, "oz/in2">>,
  <<Decibel, "dB">>,
  <<Kilopascal, "kPa">>,
  <<CentimetreMercury, "cmHg">>,
  <<FeetWater, "ftH2O">>,
  <<InchMercury, "inHg">>,
  <<PoundSquareInch, "psi">>,
  <<MetreWater, "mH2O">>,
  <<TonneSquareFoot_Short, "tsf_short">>,
  <<TechnicalAtmosphere, "at">>,
  <<KilogramSquareCentimetre, "kg/cm2">>,
  <<Bar, "bar">>,
  <<Atmosphere, "atm">>,
  <<Megapascal, "MPa">>,
  <<TonneSquareInch_Short, "tsi_short">>,
  <<TonneSquareInch_Long, "tsi_long">>
>>

Pressure_s_Conversion == <<
  <<DyneSquareCentimetre, Lit(<<987>>, 9)>>,
  <<MilliTorr, Lit(<<1316>>, 9)>>,
  <<Pascal, Lit(<<9869>>, 9)>>,
  <<MillimetreWater, Lit(<<9, 6784>>, 9)>>,
  <<PoundSquareFoot, Lit(<<47, 2541>>, 9)>>,
  <<Hectopascal, Lit(<<98, 6923>>, 9)>>,
  <<CentimetreWater, Lit(<<96, 7839>>, 9)>>,
  <<MillimetreMercury, Lit(<<131, 5789>>, 9)>>,
  <<InchWater, Lit(<<245, 8319>>, 9)>>,
  <<OunceSquareInch, Lit(<<425, 2876>>, 9)>>,
  <<Decibel, Lit(<<515, 4639>>, 9)>>,
  <<Kilopascal, Lit(<<986, 9233>>, 9)>>,
  <<CentimetreMercury, Lit(<<1315, 7895>>, 9)>>,
  <<FeetWater, Lit(<<294, 9983>>, 8)>>,
  <<InchMercury, Lit(<<3342, 1008>>, 9)>>,
  <<PoundSquareInch, Lit(<<680, 4619>>, 8)>>,
  <<MetreWater, Lit(<<9678, 3872>>, 9)>>,
  <<TonneSquareFoot_Short, Lit(<<9, 4508, 1324>>, 9)>>,
  <<TechnicalAtmosphere, Lit(<<9, 6783, 8719>>, 9)>>,
  <<KilogramSquareCentimetre, Lit(<<9, 6783, 8719>>, 9)>>,
  <<Bar, Lit(<<9, 8692, 3267>>, 9)>>,
  <<Atmosphere, Lit(<<1>>, 0)>>,
  <<Megapascal, Lit(<<98, 6923, 2667>>, 9)>>,
  <<TonneSquareInch_Short, Lit(<<1360, 9200, 9086>>, 9)>>,
  <<TonneSquareInch_Long, Lit(<<1524, 2299, 2094>>, 9)>>
>>

(* struct Mass, lines 772-784 *)
Nanogram == 0
Microgram == 1
Milligram == 2
Gram == 3
Ounce == 4
Pound == 5
Kilogram == 6
Ton == 7
Kiloton == 8
Megaton == 9
Gigaton == 10

Mass_Unit == {Nanogram, Microgram, Milligram, Gram, Ounce, Pound, Kilogram, Ton, Kiloton, Megaton, Gigaton}

Mass_s_Lookup == <<
  <<"nanogram", Nanogram>>,
  <<"nanogramme", Nanogram>>,
  <<"nanogrammes", Nanogram>>,
  <<"nanograms", Nanogram>>,
  <<"ng", Nanogram>>,
  <<"microgram", Microgram>>,
  <<"microgramme", Microgram>>,
  <<"microgrammes", Microgram>>,
  <<"micrograms", Microgram>>,
  <<"<U+03BC>g", Microgram>>,
  <<"mg", Milligram>>,
  <<"milligram", Milligram>>,
  <<"milligramme", Milligram>>,
  <<"milligrammes", Milligram>>,
  <<"milligrams", Milligram>>,
  <<"g", Gram>>,
  <<"gram", Gram>>,
  <<"gramme", Gram>>,
  <<"grammes", Gram>>,
  <<"grams", Gram>>,
  <<"ounce", Ounce>>,
  <<"oz", Ounce>>,
  <<"lb", Pound>>,
  <<"pound", Pound>>,
  <<"kg", Kilogram>>,
  <<"kilogram", Kilogram>>,
  <<"kilogramme", Kilogram>>,
  <<"kilogrammes", Kilogram>>,
  <<"kilograms", Kilogram>>,
  <<"t", Ton>>,
  <<"ton", Ton>>,
  <<"tonne", Ton>>,
  <<"tonnes", Ton>>,
  <<"tons", Ton>>,
  <<"kilotonne", Kiloton>>,
  <<"kiloton", Kiloton>>,
  <<"kilotonnes", Kiloton>>,
  <<"kilotons", Kiloton>>,
  <<"kt", Kiloton>>,
  <<"megaton", Megaton>>,
  <<"megatonne", Megaton>>,
  <<"megatonnes", Megaton>>,
  <<"megatons", Megaton>>,
  <<"Mt", Megaton>>,
  <<"gigaton", Gigaton>>,
  <<"gigatonne", Gigaton>>,
  <<"gigatonnes", Gigaton>>,
  <<"gigatons", Gigaton>>,
  <<"Gt", Gigaton>>
>>

Mass_s_Symbol == <<
  <<Nanogram, "ng">>,
  <<Microgram, "<U+03BC>g">>,
  <<Milligram, "mg">>,
  <<Gram, "g">>,
  <<Ounce, "oz">>,
  <<Pound, "lb">>,
  <<Kilogram, "kg">>,
  <<Ton, "t">>,
  <<Kiloton, "kt">>,
  <<Megaton, "Mt">>,
  <<Gigaton, "Gt">>
>>

Mass_s_Conversion == <<
  <<Nanogram, Lit(<<1>>, 12)>>,
  <<Microgram, Lit(<<1>>, 9)>>,
  <<Milligram, Lit(<<1>>, 6)>>,
  <<Gram, Lit(<<1>>, 3)>>,
  <<Ounce, Lit(<<283, 4952>>, 8)>>,
  <<Pound, Lit(<<453, 5923>>, 7)>>,
  <<Kilogram, Lit(<<1>>, 0)>>,
  <<Ton, Lit(<<1000>>, 0)>>,
  <<Kiloton, Lit(<<100, 0000>>, 0)>>,
  <<Megaton, Lit(<<10, 0000, 0000>>, 0)>>,
  <<Gigaton, Lit(<<1, 0000, 0000, 0000>>, 0)>>
>>

(* struct Area, lines 912-921 *)
SquareMillimetre == 0
SquareCentimetre == 1
SquareInch == 2
SquareMetre == 3
SquareFoot == 4
Acre == 5
Hectare == 6
SquareYard == 7

Area_Unit == {SquareMillimetre, SquareCentimetre, SquareInch, SquareMetre, SquareFoot, Acre, Hectare, SquareYard}

Area_s_Lookup == <<
  <<"mm2", SquareMillimetre>>,
  <<"mm^2", SquareMillimetre>>,
  <<"mm<U+00B2>", SquareMillimetre>>,
  <<"cm2", SquareCentimetre>>,
  <<"cm^2", SquareCentimetre>>,
  <<"cm<U+00B2>", SquareCentimetre>>,
  <<"\"<U+00B2>", SquareInch>>,
  <<"in2", SquareInch>>,
  <<"in^2", SquareInch>>,
  <<"in<U+00B2>", SquareInch>>,
  <<"'2", SquareFoot>>,
  <<"ft2", SquareFoot>>,
  <<"ft^2", SquareFoot>>,
  <<"ft<U+00B2>", SquareFoot>>,
  <<"yd2", SquareYard>>,
  <<"yd^2", SquareYard>>,
  <<"yd<U+00B2>", SquareYard>>,
  <<"m2", SquareMetre>>,
  <<"m^2", SquareMetre>>,
  <<"m<U+00B2>", SquareMetre>>,
  <<"ac", Acre>>,
  <<"acre", Acre>>,
  <<"ha", Hectare>>,
  <<"hectare", Hectare>>
>>

Area_s_Symbol == <<
  <<SquareMillimetre, "mm2">>,
  <<SquareCentimetre, "cm2">>,
  <<SquareInch, "in2">>,
  <<SquareMetre, "m2">>,
  <<SquareFoot, "ft2">>,
  <<Acre, "ac">>,
  <<Hectare, "ha">>,
  <<SquareYard, "yd2">>
>>

Area_s_Conversion == <<
  <<SquareMillimetre, Lit(<<1>>, 6)>>,
  <<SquareCentimetre, Lit(<<1>>, 4)>>,
  <<SquareInch, Lit(<<6, 4516>>, 8)>>,
  <<SquareFoot, Lit(<<929, 0304>>, 8)>>,
  <<SquareYard, Lit(<<8361, 2736>>, 8)>>,
  <<SquareMetre, Lit(<<1>>, 0)>>,
  <<Acre, Lit(<<404, 6856, 4224>>, 7)>>,
  <<Hectare, Lit(<<1, 0000>>, 0)>>
>>

(* struct Volume, lines 1018-1032 *)
Millilitre == 0
Centilitre == 1
CubicInch == 2
FluidOunce == 3
Cup == 4
Pint == 5
Quart == 6
Litre == 7
Gallon == 8
CubicFoot == 9
Barrel == 10
CubicYard == 11
CubicMetre == 12

Volume_Unit == {Millilitre, Centilitre, CubicInch, FluidOunce, Cup, Pint, Quart, Litre, Gallon, CubicFoot, Barrel, CubicYard, CubicMetre}

Volume_s_Lookup == <<
  <<"milliliter", Millilitre>>,
  <<"millilitre", Millilitre>>,
  <<"ml", Millilitre>>,
  <<"centiliter", Centilitre>>,
  <<"centilitre", Centilitre>>,
  <<"cl", Centilitre>>,
  <<"\"3", CubicInch>>,
  <<"\"^3", CubicInch>>,
  <<"\"<U+00B3>", CubicInch>>,
  <<"cu in", CubicInch>>,
  <<"cu. in", CubicInch>>,
  <<"cu. in.", CubicInch>>,
  <<"in. cu", CubicInch>>,
  <<"in. cu.", CubicInch>>,
  <<"in3", CubicInch>>,
  <<"in^3", CubicInch>>,
  <<"in<U+00B3>", CubicInch>>,
  <<"fl oz", FluidOunce>>,
  <<"fl <U+2125>", FluidOunce>>,
  <<"fl. oz", FluidOunce>>,
  <<"fl/oz", FluidOunce>>,
  <<"floz", FluidOunce>>,
  <<"f<U+2125>", FluidOunce>>,
  <<"oz. fl", FluidOunce>>,
  <<"oz. fl.", FluidOunce>>,
  <<"<U+0192> <U+2125>", FluidOunce>>,
  <<"<U+2125>", FluidOunce>>,
  <<"cup", Cup>>,
  <<"cups", Cup>>,
  <<"p", Pint>>,
  <<"pint", Pint>>,
  <<"pt", Pint>>,
  <<"qt", Quart>>,
  <<"quart", Quart>>,
  <<"l", Litre>>,
  <<"liter", Litre>>,
  <<"litre", Litre>>,
  <<"gal", Gallon>>,
  <<"gallon", Gallon>>,
  <<"'3", CubicFoot>>,
  <<"'^3", CubicFoot>>,
  <<"'<U+00B3>", CubicFoot>>,
  <<"cu f", CubicFoot>>,
  <<"cu ft", CubicFoot>>,
  <<"cu. f", CubicFoot>>,
  <<"cu. f.", CubicFoot>>,
  <<"cu. ft", CubicFoot>>,
  <<"cu. ft.", CubicFoot>>,
  <<"f. cu", CubicFoot>>,
  <<"f. cu.", CubicFoot>>,
  <<"f^3", CubicFoot>>,
  <<"ft. cu", CubicFoot>>,
  <<"ft. cu.", CubicFoot>>,
  <<"ft3", CubicFoot>>,
  <<"ft^3", CubicFoot>>,
  <<"ft<U+00B3>", CubicFoot>>,
  <<"f<U+00B3>", CubicFoot>>,
  <<"in3", CubicFoot>>,
  <<"barrel", Barrel>>,
  <<"barrels", Barrel>>,
  <<"bbl", Barrel>>,
  <<"yd3", CubicYard>>,
  <<"yd^3", CubicYard>>,
  <<"yd<U+00B3>", CubicYard>>,
  <<"m3", CubicMetre>>,
  <<"m^3", CubicMetre>>,
  <<"m<U+00B3>", CubicMetre>>
>>

Volume_s_Symbol == <<
  <<Millilitre, "ml">>,
  <<Centilitre, "cl">>,
  <<CubicInch, "in3">>,
  <<FluidOunce, "fl. oz">>,
  <<Cup, "cup">>,
  <<Pint, "pt">>,
  <<Quart, "qt">>,
  <<Litre, "l">>,
  <<Gallon, "gal">>,
  <<CubicFoot, "ft3">>,
  <<Barrel, "bbl">>,
  <<CubicYard, "yd3">>,
  <<CubicMetre, "m3">>
>>

Volume_s_Conversion == <<
  <<Millilitre, Lit(<<1>>, 6)>>,
  <<Centilitre, Lit(<<1>>, 5)>>,
  <<CubicInch, Lit(<<1638, 7064>>, 12)>>,
  <<FluidOunce, Lit(<<2, 9574>>, 9)>>,
  <<Cup, Lit(<<237>>, 6)>>,
  <<Pint, Lit(<<4, 7317, 6473>>, 12)>>,
  <<Quart, Lit(<<946>>, 6)>>,
  <<Litre, Lit(<<1>>, 3)>>,
  <<Gallon, Lit(<<37, 8541, 1784>>, 12)>>,
  <<CubicFoot, Lit(<<283, 1684, 6592>>, 12)>>,
  <<Barrel, Lit(<<1589, 8729, 4928>>, 12)>>,
  <<CubicYard, Lit(<<7, 6455, 4858>>, 9)>>,
  <<CubicMetre, Lit(<<1>>, 0)>>
>>

-----------------------------------------------------------------------------
(* The categories and their tables, by category.                           *)

Categories ==
  {"Speed", "Distance", "Rotation", "Time", "Temperature", "Pressure", "Mass",
   "Area", "Volume"}

(* The categories that have a factor table s_Conversion and the one-line   *)
(* Convert; Temperature has neither.                                       *)
LinearCategories == Categories \ {"Temperature"}

Unit(cat) ==
  CASE cat = "Speed"       -> Speed_Unit
    [] cat = "Distance"    -> Distance_Unit
    [] cat = "Rotation"    -> Rotation_Unit
    [] cat = "Time"        -> Time_Unit
    [] cat = "Temperature" -> Temperature_Unit
    [] cat = "Pressure"    -> Pressure_Unit
    [] cat = "Mass"        -> Mass_Unit
    [] cat = "Area"        -> Area_Unit
    [] cat = "Volume"      -> Volume_Unit

LookupItems(cat) ==
  CASE cat = "Speed"       -> Speed_s_Lookup
    [] cat = "Distance"    -> Distance_s_Lookup
    [] cat = "Rotation"    -> Rotation_s_Lookup
    [] cat = "Time"        -> Time_s_Lookup
    [] cat = "Temperature" -> Temperature_s_Lookup
    [] cat = "Pressure"    -> Pressure_s_Lookup
    [] cat = "Mass"        -> Mass_s_Lookup
    [] cat = "Area"        -> Area_s_Lookup
    [] cat = "Volume"      -> Volume_s_Lookup

(* The symbol tables with the first item of Area's initializer list left    *)
(* out.                                                                    *)
SymbolItems_Missing(cat) ==
  CASE cat = "Speed"       -> Speed_s_Symbol
    [] cat = "Distance"    -> Distance_s_Symbol
    [] cat = "Rotation"    -> Rotation_s_Symbol
    [] cat = "Time"        -> Time_s_Symbol
    [] cat = "Temperature" -> Temperature_s_Symbol
    [] cat = "Pressure"    -> Pressure_s_Symbol
    [] cat = "Mass"        -> Mass_s_Symbol
    [] cat = "Area"        -> Tail(Area_s_Symbol)
    [] cat = "Volume"      -> Volume_s_Symbol

SymbolItems(cat) ==
  CASE cat = "Speed"       -> Speed_s_Symbol
    [] cat = "Distance"    -> Distance_s_Symbol
    [] cat = "Rotation"    -> Rotation_s_Symbol
    [] cat = "Time"        -> Time_s_Symbol
    [] cat = "Temperature" -> Temperature_s_Symbol
    [] cat = "Pressure"    -> Pressure_s_Symbol
    [] cat = "Mass"        -> Mass_s_Symbol
    [] cat = "Area"        -> Area_s_Symbol
    [] cat = "Volume"      -> Volume_s_Symbol

(* The factor tables with the factor of Mass's first item written as 0.    *)
ConversionItems_ZeroFactor(cat) ==
  CASE cat = "Speed"       -> Speed_s_Conversion
    [] cat = "Distance"    -> Distance_s_Conversion
    [] cat = "Rotation"    -> Rotation_s_Conversion
    [] cat = "Time"        -> Time_s_Conversion
    [] cat = "Pressure"    -> Pressure_s_Conversion
    [] cat = "Mass"        -> <<<<Mass_s_Conversion[1][1], Lit(<<0>>, 0)>>>>
                                \o Tail(Mass_s_Conversion)
    [] cat = "Area"        -> Area_s_Conversion
    [] cat = "Volume"      -> Volume_s_Conversion

ConversionItems(cat) ==
  CASE cat = "Speed"       -> Speed_s_Conversion
    [] cat = "Distance"    -> Distance_s_Conversion
    [] cat = "Rotation"    -> Rotation_s_Conversion
    [] cat = "Time"        -> Time_s_Conversion
    [] cat = "Pressure"    -> Pressure_s_Conversion
    [] cat = "Mass"        -> Mass_s_Conversion
    [] cat = "Area"        -> Area_s_Conversion
    [] cat = "Volume"      -> Volume_s_Conversion

-----------------------------------------------------------------------------
(* Hashmap<K, V> (Hashmap.hpp, not part of the sources): a key/value       *)
(* container built from an initializer list, with a "try get" that returns *)
(* an optional reference and an index operator.  Which of two items with   *)
(* the same key the constructor keeps is not fixed by anything in the      *)
(* sources: the container is built under either policy.                    *)

DuplicateKeyPolicies == {"keep first", "keep last"}

ItemKeys(items) == {items[i][1] : i \in 1..Len(items)}

ItemIndex(items, key, policy) ==
  LET hits == {i \in 1..Len(items) : items[i][1] = key}
  IN  IF policy = "keep first"
      THEN CHOOSE i \in hits : \A j \in hits : i <= j
      ELSE CHOOSE i \in hits : \A j \in hits : i >= j

Hashmap(items, policy) ==
  [key \in ItemKeys(items) |-> items[ItemIndex(items, key, policy)][2]]

(* optional_ref: <<>> is the empty optional, <<v>> holds v *)
Get(map, key) == IF key \in DOMAIN map THEN <<map[key]>> ELSE <<>>

(* map[key], for a key the map holds *)
At(map, key) == map[key]

-----------------------------------------------------------------------------
(* State                                                                   *)

VARIABLES
  s_Lookup,      \* category -> Hashmap<std::string, Unit>: alias -> unit
  s_Symbol,      \* category -> Hashmap<Unit, std::string>: unit -> symbol
  s_Conversion,  \* linear category -> Hashmap<Unit, scalar>: unit -> factor
  callers,       \* concurrent caller -> its call in flight and the outcome
  thread         \* the calling thread: its last call and the outcome

tables == <<s_Lookup, s_Symbol, s_Conversion>>

vars == <<s_Lookup, s_Symbol, s_Conversion, callers, thread>>

(* How a call ends: it returns a value or it throws std::runtime_error.    *)
Returned(value) == [status |-> "returned", result |-> value]

Threw(what) == [status |-> "threw", what |-> what]

-----------------------------------------------------------------------------
(* The functions of the library                                            *)

(* A lookup that yields a value-initialised Unit for an unknown symbol.     *)
TryGuessUnit_Default(cat, symbol) ==
  IF symbol \in DOMAIN s_Lookup[cat] THEN <<s_Lookup[cat][symbol]>> ELSE <<0>>

(* <Category>::TryGuessUnit(_symbol), all nine categories *)
TryGuessUnit(cat, symbol) == Get(s_Lookup[cat], symbol)

(* <Category>::Symbol(_unit), all nine categories *)
Symbol(cat, unit) == At(s_Symbol[cat], unit)

(* The ratio taken the wrong way round. *)
Convert_Swapped(cat, val, from, to) ==
  Mul(val, Div(At(s_Conversion[cat], to), At(s_Conversion[cat], from)))

(* The value multiplied by both factors instead of by their ratio. *)
Convert_Product(cat, val, from, to) ==
  Mul(val, Mul(At(s_Conversion[cat], from), At(s_Conversion[cat], to)))

(* <Category>::Convert(_val, _from, _to) of the eight linear categories:   *)
(* _val * (s_Conversion[_from] / s_Conversion[_to])                        *)
Convert(cat, val, from, to) ==
  Mul(val, Div(At(s_Conversion[cat], from), At(s_Conversion[cat], to)))

s_PlanckTemperature ==
  Lit(<<142, 0000, 0000, 0000, 0000, 0000, 0000, 0000, 0000>>, 0)

s_AbsoluteZero == Lit(<<0>>, 0)

(* Temperature::Convert, first switch: "Convert to Kelvin" *)
ToKelvin(val, from) ==
  CASE from = Celsius    -> Sub(val, Lit(<<2, 7215>>, 2))
    [] from = Fahrenheit -> Div(Add(val, Lit(<<4, 5967>>, 2)), Lit(<<18>>, 1))
    [] from = Kelvin     -> val

(* Temperature::Convert, second switch: "Convert Kelvin to target" *)
FromKelvin(result, to) ==
  CASE to = Celsius    -> Add(result, Lit(<<2, 7315>>, 2))
    [] to = Fahrenheit -> Sub(Mul(result, Lit(<<18>>, 1)), Lit(<<4, 5967>>, 2))
    [] to = Kelvin     -> result

(* Temperature::Convert without the std::max line. *)
Temperature_Convert_NoClamp(val, from, to) ==
  IF from \notin {Celsius, Fahrenheit, Kelvin}
  THEN Threw("Not implemented!")
  ELSE LET kelvin == ToKelvin(val, from)
       IN  IF to \notin {Celsius, Fahrenheit, Kelvin}
           THEN Threw("Not implemented!")
           ELSE [status  |-> "returned",
                 result  |-> FromKelvin(kelvin, to),
                 kelvin  |-> kelvin,
                 clamped |-> kelvin]

(* Temperature::Convert with switches that have no default branch: a unit  *)
(* outside the enumeration leaves `result` as it is.                       *)
Temperature_Convert_NoDefault(val, from, to) ==
  LET kelvin  == IF from \in {Celsius, Fahrenheit, Kelvin}
                 THEN ToKelvin(val, from) ELSE s_AbsoluteZero
      clamped == Max(kelvin, s_AbsoluteZero)
  IN  [status  |-> "returned",
       result  |-> IF to \in {Celsius, Fahrenheit, Kelvin}
                   THEN FromKelvin(clamped, to) ELSE clamped,
       kelvin  |-> kelvin,
       clamped |-> clamped]

(* Temperature::Convert with std::min written where the source has        *)
(* std::max.                                                               *)
Temperature_Convert_MinClamp(val, from, to) ==
  IF from \notin {Celsius, Fahrenheit, Kelvin}
  THEN Threw("Not implemented!")
  ELSE LET kelvin  == ToKelvin(val, from)
           clamped == Min(kelvin, s_AbsoluteZero)
       IN  IF to \notin {Celsius, Fahrenheit, Kelvin}
           THEN Threw("Not implemented!")
           ELSE [status  |-> "returned",
                 result  |-> FromKelvin(clamped, to),
                 kelvin  |-> kelvin,
                 clamped |-> clamped]

(* Temperature::Convert(_val, _from, _to).  The record of a call that      *)
(* returns also carries the two values the local `result` held on the way: *)
(* kelvin (after the first switch) and clamped (after std::max).           *)
Temperature_Convert(val, from, to) ==
  IF from \notin {Celsius, Fahrenheit, Kelvin}
  THEN Threw("Not implemented!")
  ELSE LET kelvin  == ToKelvin(val, from)
           clamped == Max(kelvin, s_AbsoluteZero)
       IN  IF to \notin {Celsius, Fahrenheit, Kelvin}
           THEN Threw("Not implemented!")
           ELSE [status  |-> "returned",
                 result  |-> FromKelvin(clamped, to),
                 kelvin  |-> kelvin,
                 clamped |-> clamped]

(* Temperature::ClampTemperature(_val, _unit); an exception of the inner   *)
(* Convert leaves the function.                                            *)
ClampTemperature(val, unit) ==
  LET inner == Temperature_Convert(val, unit, Kelvin)
  IN  IF inner.status = "threw"
      THEN inner
      ELSE LET outer == Temperature_Convert(
                          Min(inner.result, s_PlanckTemperature), Kelvin, unit)
           IN  IF outer.status = "threw" THEN outer ELSE Returned(outer.result)

(* Angles in radians are kept as their ratio to pi: M_PI is 1 and an angle *)
(* of x stands for x * pi.                                                 *)
M_PI == Lit(<<1>>, 0)

(* Rotation::s_DegreesToRadians = M_PI / 180.0 *)
s_DegreesToRadians == Div(M_PI, Lit(<<180>>, 0))

(* Latitudes reach MaxLat right angles either way. *)
MaxLat == 3

(* std::cos(x), at the angles where the cosine is rational: the whole      *)
(* multiples of pi/3 and of pi/2.  k is the angle in units of pi/6.        *)
cos(x) ==
  LET k == CHOOSE n \in -(3 * MaxLat)..(3 * MaxLat) :
             Cmp(Mul(x, Lit(<<6>>, 0)),
                 IF n < 0 THEN Neg(Lit(<<-n>>, 0)) ELSE Lit(<<n>>, 0)) = 0
  IN  CASE k % 12 = 0        -> Lit(<<1>>, 0)
        [] k % 12 \in {2, 10} -> Lit(<<5>>, 1)
        [] k % 12 \in {3, 9}  -> Lit(<<0>>, 0)
        [] k % 12 \in {4, 8}  -> Neg(Lit(<<5>>, 1))
        [] k % 12 = 6        -> Neg(Lit(<<1>>, 0))

(* The scale of MetresToArcSeconds where that of ArcSecondsToMetres is     *)
(* meant.                                                                  *)
ArcSecondsToMetres_Divided(arcSeconds, lat) ==
  LET scale == Abs(Div(cos(Mul(s_DegreesToRadians, lat)),
                       Div(Lit(<<1852>>, 0), Lit(<<60>>, 0))))
  IN  [status |-> "returned", result |-> Mul(arcSeconds, scale), scale |-> scale]

(* Distance::ArcSecondsToMetres(_arcSeconds, _lat).  The record of the     *)
(* call also carries the scale, the value of the std::abs expression that  *)
(* _arcSeconds is multiplied by.                                           *)
ArcSecondsToMetres(arcSeconds, lat) ==
  LET scale == Abs(Mul(cos(Mul(s_DegreesToRadians, lat)),
                       Div(Lit(<<1852>>, 0), Lit(<<60>>, 0))))
  IN  [status |-> "returned", result |-> Mul(arcSeconds, scale), scale |-> scale]

(* MetresToArcSeconds with the latitude left out of the scale. *)
MetresToArcSeconds_NoCosine(metres, lat) ==
  LET scale == Abs(Div(Lit(<<1>>, 0), Div(Lit(<<1852>>, 0), Lit(<<60>>, 0))))
  IN  [status |-> "returned", result |-> Mul(metres, scale), scale |-> scale]

(* Distance::MetresToArcSeconds(_metres, _lat), with the scale as above.   *)
MetresToArcSeconds(metres, lat) ==
  LET scale == Abs(Div(cos(Mul(s_DegreesToRadians, lat)),
                       Div(Lit(<<1852>>, 0), Lit(<<60>>, 0))))
  IN  [status |-> "returned", result |-> Mul(metres, scale), scale |-> scale]

-----------------------------------------------------------------------------
(* The arguments the calls are made with                                   *)

(* Integer values -MaxInt .. MaxInt are tried as scalars. *)
MaxInt == 1

(* Unit arguments of the Temperature functions range over 0 .. MaxUnit:    *)
(* the three enumerators and the values of the underlying unsigned char    *)
(* above them.                                                             *)
MaxUnit == 3

IntScalar(i) == IF i < 0 THEN Neg(Lit(<<-i>>, 0)) ELSE Lit(<<i>>, 0)

Small == Lit(<<1>>, 3)                                         \* 0.001

Large == Lit(<<1, 0000, 0000, 0000, 0000, 0000,
               0000, 0000, 0000, 0000, 0000>>, 0)              \* 1e40

Values ==
  {IntScalar(i) : i \in -MaxInt..MaxInt}
    \cup {Small, Large, Lit(<<300>>, 0), Neg(Lit(<<500>>, 0))}

TemperatureArgs == 0..MaxUnit

(* The values of the geospatial functions: those above and 60 (the arc     *)
(* seconds of one arc minute).                                             *)
GeoValues == Values \cup {Lit(<<60>>, 0)}

(* Latitudes in degrees: the multiples of 60 and of 90, on both sides of   *)
(* the equator and beyond the poles.                                       *)
LatitudeDegrees ==
  {60 * k : k \in -MaxLat..MaxLat} \cup {90 * k : k \in -MaxLat..MaxLat}

Latitudes == {IntScalar(d) : d \in LatitudeDegrees}

(* The latitude argument of a call: left out (<<>>) or given. *)
LatitudeArgs == {<<>>} \cup {<<lat>> : lat \in Latitudes}

(* _lat = 0.0, the default argument *)
DefaultLat == Lit(<<0>>, 0)

LatOf(arg) == IF arg = <<>> THEN DefaultLat ELSE arg[1]

(* Strings no category registers, beside every alias and every canonical   *)
(* symbol of every category.                                               *)
Probes == {"not-a-real-unit", "", "KM/H", "Km", " km", "km ", "MPH", "pascal "}

Symbols ==
  UNION {ItemKeys(LookupItems(cat)) : cat \in Categories}
    \cup UNION {{SymbolItems(cat)[i][2] : i \in 1..Len(SymbolItems(cat))} :
                  cat \in Categories}
    \cup Probes

(* The callers that run at the same time. *)
Threads == {"t1", "t2"}

(* A caller with no call in flight. *)
NoCall == [call |-> <<>>, outcome |-> <<>>]

(* The calls the concurrent callers make: each function, on a table two    *)
(* callers may read at once, with a result that is a value and one that is *)
(* none (an empty optional, an exception).                                 *)
ConcurrentCalls ==
  [op : {"TryGuessUnit"}, cat : {"Volume", "Temperature"},
   symbol : {"in3", "K", "not-a-real-unit"}]
    \cup [op : {"Symbol"}, cat : {"Volume", "Temperature"},
          unit : {Celsius, Fahrenheit, Kelvin}]
    \cup [op : {"Convert"}, cat : {"Time"}, val : {Lit(<<1>>, 0)},
          from : {Second, Hour}, to : {Second, Hour}]
    \cup [op : {"Convert"}, cat : {"Temperature"}, val : {Lit(<<0>>, 0)},
          from : {Celsius, Kelvin, Kelvin + 1}, to : {Kelvin}]
    \cup [op : {"ClampTemperature"}, cat : {"Temperature"}, val : {Large},
          unit : {Celsius, Kelvin}]
    \cup [op : {"ArcSecondsToMetres", "MetresToArcSeconds"}, cat : {"Distance"},
          val : {Lit(<<60>>, 0)}, arg : {<<>>, <<Lit(<<60>>, 0)>>}]

-----------------------------------------------------------------------------
(* Initial state: the static tables are constructed, no call made yet.     *)

Init ==
  /\ \E policy \in DuplicateKeyPolicies :
       /\ s_Lookup = [cat \in Categories |-> Hashmap(LookupItems(cat), policy)]
       /\ s_Symbol = [cat \in Categories |-> Hashmap(SymbolItems(cat), policy)]
       /\ s_Conversion =
            [cat \in LinearCategories |-> Hashmap(ConversionItems(cat), policy)]
  /\ callers = [t \in Threads |-> NoCall]
  /\ thread = [op |-> "none"]

-----------------------------------------------------------------------------
(* One action per function of the library: the call, whole.  Return is the *)
(* thread taking the result of its call.                                   *)

Idle == thread.op = "none"

CallTryGuessUnit(cat, symbol) ==
  /\ thread' = [op |-> "TryGuessUnit", cat |-> cat, symbol |-> symbol]
               @@ Returned(TryGuessUnit(cat, symbol))
  /\ UNCHANGED <<tables, callers>>

CallSymbol(cat, unit) ==
  /\ thread' = [op |-> "Symbol", cat |-> cat, unit |-> unit]
               @@ Returned(Symbol(cat, unit))
  /\ UNCHANGED <<tables, callers>>

CallConvert(cat, val, from, to) ==
  /\ thread' = [op |-> "Convert", cat |-> cat, val |-> val, from |-> from,
              to |-> to] @@ Returned(Convert(cat, val, from, to))
  /\ UNCHANGED <<tables, callers>>

CallTemperatureConvert(val, from, to) ==
  /\ thread' = [op |-> "Convert", cat |-> "Temperature", val |-> val,
              from |-> from, to |-> to] @@ Temperature_Convert(val, from, to)
  /\ UNCHANGED <<tables, callers>>

CallClampTemperature(val, unit) ==
  /\ thread' = [op |-> "ClampTemperature", cat |-> "Temperature", val |-> val,
              unit |-> unit] @@ ClampTemperature(val, unit)
  /\ UNCHANGED <<tables, callers>>

CallArcSecondsToMetres(val, arg) ==
  /\ thread' = [op |-> "ArcSecondsToMetres", cat |-> "Distance", val |-> val,
              given |-> arg # <<>>, lat |-> LatOf(arg)]
               @@ ArcSecondsToMetres(val, LatOf(arg))
  /\ UNCHANGED <<tables, callers>>

CallMetresToArcSeconds(val, arg) ==
  /\ thread' = [op |-> "MetresToArcSeconds", cat |-> "Distance", val |-> val,
              given |-> arg # <<>>, lat |-> LatOf(arg)]
               @@ MetresToArcSeconds(val, LatOf(arg))
  /\ UNCHANGED <<tables, callers>>

Return ==
  /\ ~Idle
  /\ thread' = [op |-> "none"]
  /\ UNCHANGED <<tables, callers>>

(* A thread that holds no result makes one call, with any arguments. *)
Call ==
  \/ \E cat \in Categories, symbol \in Symbols : CallTryGuessUnit(cat, symbol)
  \/ \E cat \in Categories : \E unit \in Unit(cat) : CallSymbol(cat, unit)
  \/ \E cat \in LinearCategories, val \in Values :
       \E from \in Unit(cat), to \in Unit(cat) : CallConvert(cat, val, from, to)
  \/ \E val \in Values, from \in TemperatureArgs, to \in TemperatureArgs :
       CallTemperatureConvert(val, from, to)
  \/ \E val \in Values, unit \in TemperatureArgs : CallClampTemperature(val, unit)
  \/ \E val \in GeoValues, arg \in LatitudeArgs :
       CallArcSecondsToMetres(val, arg)
  \/ \E val \in GeoValues, arg \in LatitudeArgs :
       CallMetresToArcSeconds(val, arg)

Next ==
  \/ Idle /\ Call
  \/ Return

Spec == Init /\ [][Next]_vars

-----------------------------------------------------------------------------
(* Concurrent callers.  The functions take no lock and the tables are      *)
(* const: a caller enters a function, other callers take steps, the caller *)
(* runs the function on the tables as they are then, and takes the result. *)

(* Caller t has entered function op and has not run it yet. *)
Entered(t, op) ==
  /\ callers[t].call # <<>>
  /\ callers[t].outcome = <<>>
  /\ callers[t].call[1].op = op

Finished(t, outcome) ==
  callers' = [callers EXCEPT ![t].outcome = <<outcome>>]

Enter(t, c) ==
  /\ callers[t] = NoCall
  /\ callers' = [callers EXCEPT ![t] = [call |-> <<c>>, outcome |-> <<>>]]
  /\ UNCHANGED <<tables, thread>>

(* A lookup that registers the symbol it did not find, as an index         *)
(* operator of a map that is not const does.                               *)
RunTryGuessUnit_Inserting(t) ==
  /\ Entered(t, "TryGuessUnit")
  /\ LET c == callers[t].call[1]
     IN  /\ Finished(t, Returned(TryGuessUnit(c.cat, c.symbol)))
         /\ s_Lookup' =
              IF c.symbol \in DOMAIN s_Lookup[c.cat] THEN s_Lookup
              ELSE [s_Lookup EXCEPT ![c.cat] = (c.symbol :> 0) @@ @]
  /\ UNCHANGED <<s_Symbol, s_Conversion, thread>>

RunTryGuessUnit(t) ==
  /\ Entered(t, "TryGuessUnit")
  /\ LET c == callers[t].call[1]
     IN  Finished(t, Returned(TryGuessUnit(c.cat, c.symbol)))
  /\ UNCHANGED <<tables, thread>>

RunSymbol(t) ==
  /\ Entered(t, "Symbol")
  /\ LET c == callers[t].call[1]
     IN  Finished(t, Returned(Symbol(c.cat, c.unit)))
  /\ UNCHANGED <<tables, thread>>

RunConvert(t) ==
  /\ Entered(t, "Convert")
  /\ LET c == callers[t].call[1]
     IN  Finished(t, IF c.cat = "Temperature"
                     THEN Temperature_Convert(c.val, c.from, c.to)
                     ELSE Returned(Convert(c.cat, c.val, c.from, c.to)))
  /\ UNCHANGED <<tables, thread>>

RunClampTemperature(t) ==
  /\ Entered(t, "ClampTemperature")
  /\ LET c == callers[t].call[1]
     IN  Finished(t, ClampTemperature(c.val, c.unit))
  /\ UNCHANGED <<tables, thread>>

RunArcSecondsToMetres(t) ==
  /\ Entered(t, "ArcSecondsToMetres")
  /\ LET c == callers[t].call[1]
     IN  Finished(t, ArcSecondsToMetres(c.val, LatOf(c.arg)))
  /\ UNCHANGED <<tables, thread>>

RunMetresToArcSeconds(t) ==
  /\ Entered(t, "MetresToArcSeconds")
  /\ LET c == callers[t].call[1]
     IN  Finished(t, MetresToArcSeconds(c.val, LatOf(c.arg)))
  /\ UNCHANGED <<tables, thread>>

(* The caller takes the result (or the exception) and is free again. *)
Leave(t) ==
  /\ callers[t].outcome # <<>>
  /\ callers' = [callers EXCEPT ![t] = NoCall]
  /\ UNCHANGED <<tables, thread>>

ConcurrentNext ==
  \E t \in Threads :
    \/ \E c \in ConcurrentCalls : Enter(t, c)
    \/ RunTryGuessUnit(t)
    \/ RunSymbol(t)
    \/ RunConvert(t)
    \/ RunClampTemperature(t)
    \/ RunArcSecondsToMetres(t)
    \/ RunMetresToArcSeconds(t)
    \/ Leave(t)

ConcurrentSpec == Init /\ [][ConcurrentNext]_vars

-----------------------------------------------------------------------------
(* Properties                                                              *)

Zero == Lit(<<0>>, 0)

One == Lit(<<1>>, 0)

(* The factor the source's initializer list writes for a unit. *)
Factor(cat, unit) ==
  LET items == ConversionItems(cat)
  IN  items[CHOOSE i \in 1..Len(items) : items[i][1] = unit][2]

(* Convert of any category, for units of its enumeration. *)
ConvertIn(cat, val, from, to) ==
  IF cat = "Temperature"
  THEN Temperature_Convert(val, from, to).result
  ELSE Convert(cat, val, from, to)

(* The values the identity property is stated for: 0, 1, a large and a     *)
(* small value.                                                            *)
Representative == {Zero, One, Large, Small}

LinearConvertDone ==
  thread.op = "Convert" /\ thread.cat \in LinearCategories

TemperatureConvertDone ==
  thread.op = "Convert" /\ thread.cat = "Temperature"

TemperatureConvertReturned ==
  TemperatureConvertDone /\ thread.status = "returned"

(* C1: in the eight linear categories, for every pair of enumerated units  *)
(* and every value v, Convert(v, from, to) is v * (factor(from) /          *)
(* factor(to)): the result times factor(to) is v times factor(from), with  *)
(* the factors as the category's table writes them.                        *)
C1_LinearConvert ==
  LinearConvertDone =>
    /\ thread.status = "returned"
    /\ Equal(Mul(thread.result, Factor(thread.cat, thread.to)),
             Mul(thread.val, Factor(thread.cat, thread.from)))

(* Distance::Convert(1, Kilometre, Metre) has returned 1000. *)
C1_Witness ==
  /\ LinearConvertDone
  /\ thread.cat = "Distance" /\ thread.from = Kilometre /\ thread.to = Metre
  /\ Equal(thread.val, One)
  /\ Equal(thread.result, Lit(<<1000>>, 0))

(* C2: identity.  In every category, Temperature included, for every unit  *)
(* U of the enumeration and each representative value v (0, 1, large,      *)
(* small), Convert(v, U, U) is v.                                          *)
C2_Identity ==
  (/\ thread.op = "Convert"
   /\ thread.status = "returned"
   /\ thread.from = thread.to
   /\ thread.val \in Representative)
    => Equal(thread.result, thread.val)

(* C3: round trip.  In every category, Temperature included, for every     *)
(* pair of units (A, B) of the enumeration and every value v,              *)
(* Convert(Convert(v, A, B), B, A) is v within a relative error of 1e-9.   *)
(* Stated for v >= 0, where no clamp at absolute zero is meant to act.     *)
C3_RoundTrip ==
  (/\ thread.op = "Convert"
   /\ thread.status = "returned"
   /\ ~thread.val.neg)
    => LET back == ConvertIn(thread.cat, thread.result, thread.to, thread.from)
       IN  LessEq(Abs(Sub(back, thread.val)), Mul(Lit(<<1>>, 9), Abs(thread.val)))

C5_SourceStep ==
  TemperatureConvertReturned =>
    /\ thread.from = Celsius =>
         Equal(thread.kelvin, Add(thread.val, Lit(<<2, 7215>>, 2)))
    /\ thread.from = Fahrenheit =>
         Equal(Mul(thread.kelvin, Lit(<<18>>, 1)),
               Add(thread.val, Lit(<<4, 5967>>, 2)))
    /\ thread.from = Kelvin => Equal(thread.kelvin, thread.val)

(* C6: Temperature::Convert raises a Kelvin intermediate below 0 to        *)
(* exactly 0 (and leaves any other as it is) before the destination        *)
(* formula is applied, so that Convert(Convert(v, A, B), B, Kelvin) is     *)
(* never negative; Convert(-500, Celsius, Kelvin) is 0.                    *)
C6_AbsoluteZeroFloor ==
  TemperatureConvertReturned =>
    /\ Less(thread.kelvin, Zero) => thread.clamped = Zero
    /\ ~Less(thread.kelvin, Zero) => thread.clamped = thread.kelvin
    /\ Equal(thread.result, FromKelvin(thread.clamped, thread.to))
    /\ LET again == Temperature_Convert(thread.result, thread.to, Kelvin)
       IN  again.status = "returned" /\ ~Less(again.result, Zero)
    /\ (/\ Equal(thread.val, Neg(Lit(<<500>>, 0)))
        /\ thread.from = Celsius /\ thread.to = Kelvin)
         => Equal(thread.result, Zero)

(* Convert(-500, Kelvin, Fahrenheit): the intermediate -500 K was raised   *)
(* to 0 K and the thread has returned -459.67.                               *)
C6_Witness ==
  /\ TemperatureConvertReturned
  /\ thread.from = Kelvin /\ thread.to = Fahrenheit
  /\ Less(thread.kelvin, Zero)
  /\ Equal(thread.result, Neg(Lit(<<4, 5967>>, 2)))

(* C7: the destination formula of each unit U is the inverse of the source *)
(* formula of U: for every Kelvin value k >= 0,                            *)
(* Convert(Convert(k, Kelvin, U), U, Kelvin) is k; and                     *)
(* Convert(0, Kelvin, Celsius) is the offset constant of the               *)
(* Celsius-to-Kelvin formula.                                              *)
C7_DestinationInverse ==
  (/\ TemperatureConvertReturned
   /\ thread.from = Kelvin
   /\ ~thread.val.neg)
    => /\ Equal(Temperature_Convert(thread.result, thread.to, Kelvin).result,
                thread.val)
       /\ (thread.val = Zero /\ thread.to = Celsius)
            => Equal(thread.result, Lit(<<2, 7215>>, 2))

(* C8: Temperature::Convert with a unit outside {Celsius, Fahrenheit,      *)
(* Kelvin} as source or as destination throws "Not implemented!" and       *)
(* yields no value; with both units in the set it returns a value.         *)
C8_NotImplemented ==
  TemperatureConvertDone =>
    IF thread.from \in Temperature_Unit /\ thread.to \in Temperature_Unit
    THEN thread.status = "returned" /\ "result" \in DOMAIN thread
    ELSE /\ thread.status = "threw"
         /\ thread.what = "Not implemented!"
         /\ "result" \notin DOMAIN thread

(* Convert with source Kelvin and a destination above the enumerators has  *)
(* thrown.                                                                 *)
C8_Witness ==
  /\ TemperatureConvertDone
  /\ thread.from = Kelvin /\ thread.to \notin Temperature_Unit
  /\ thread.status = "threw"

(* C9: for every unit U of the enumeration and every value v,              *)
(* Convert(ClampTemperature(v, U), U, Kelvin) lies between 0 and           *)
(* s_PlanckTemperature, both included.                                     *)
C9_ClampRange ==
  (thread.op = "ClampTemperature" /\ thread.status = "returned")
    => LET k == Temperature_Convert(thread.result, thread.unit, Kelvin).result
       IN  LessEq(Zero, k) /\ LessEq(k, s_PlanckTemperature)

(* C10: ClampTemperature is idempotent: for every unit U of the            *)
(* enumeration and every value v, ClampTemperature(ClampTemperature(v, U), *)
(* U) is ClampTemperature(v, U).                                           *)
C10_ClampIdempotent ==
  (thread.op = "ClampTemperature" /\ thread.status = "returned")
    => Equal(ClampTemperature(thread.result, thread.unit).result, thread.result)

(* C11: in every category's alias table the alias keys are pairwise        *)
(* distinct: a string that TryGuessUnit resolves is registered once, for   *)
(* one unit of the category (several aliases may share a unit).            *)
C11_AliasKeysDistinct ==
  (/\ thread.op = "TryGuessUnit"
   /\ thread.status = "returned"
   /\ thread.result # <<>>)
    => LET items == LookupItems(thread.cat)
       IN  \A i, j \in 1..Len(items) :
             (items[i][1] = thread.symbol /\ items[j][1] = thread.symbol)
               => i = j

(* The number of items an initializer list writes for a key. *)
Entries(items, key) == Cardinality({i \in 1..Len(items) : items[i][1] = key})

(* An initializer list and the table built from it are total over a        *)
(* category's enumeration: one item for each unit, none for anything else. *)
TotalOver(items, map, cat) ==
  /\ \A u \in Unit(cat) : Entries(items, u) = 1
  /\ ItemKeys(items) = Unit(cat)
  /\ DOMAIN map = Unit(cat)

(* C12 as stated: each of the nine categories has a factor table and a     *)
(* symbol table, both total over the category's enumeration.               *)
C12_TablesTotalNine ==
  \A cat \in Categories :
    /\ TotalOver(SymbolItems(cat), s_Symbol[cat], cat)
    /\ cat \in DOMAIN s_Conversion
    /\ TotalOver(ConversionItems(cat), s_Conversion[cat], cat)

(* C12, amended: the symbol table of each of the nine categories and the   *)
(* factor table of each of the eight linear categories have exactly one    *)
(* entry for every unit of the category's enumeration and none for         *)
(* anything else; Temperature has no factor table.                         *)
C12_TablesTotal ==
  /\ \A cat \in Categories :
       TotalOver(SymbolItems(cat), s_Symbol[cat], cat)
  /\ \A cat \in LinearCategories :
       TotalOver(ConversionItems(cat), s_Conversion[cat], cat)
  /\ DOMAIN s_Conversion = Categories \ {"Temperature"}

(* Temperature::Symbol(Kelvin) has returned "K" from a symbol table over   *)
(* the three enumerators, and there is no factor table of Temperature.     *)
C12_Witness ==
  /\ thread.op = "Symbol" /\ thread.cat = "Temperature" /\ thread.unit = Kelvin
  /\ thread.result = "K"
  /\ DOMAIN s_Symbol["Temperature"] = {Celsius, Fahrenheit, Kelvin}
  /\ "Temperature" \notin DOMAIN s_Conversion

(* C13: every entry of every factor table is strictly positive, so the     *)
(* linear Convert never divides by a zero factor, whatever the pair of     *)
(* enumerated units.                                                       *)
C13_FactorsPositive ==
  /\ \A cat \in LinearCategories :
       \A u \in Unit(cat) :
         u \in DOMAIN s_Conversion[cat] /\ Less(Zero, s_Conversion[cat][u])
  /\ LinearConvertDone =>
       /\ At(s_Conversion[thread.cat], thread.to).num # <<>>
       /\ thread.result.den # <<>>

(* Pressure::Convert of a value other than 0 has returned a value other    *)
(* than 0, its divisor s_Conversion[_to] being positive.                   *)
C13_Witness ==
  /\ LinearConvertDone /\ thread.cat = "Pressure" /\ thread.from # thread.to
  /\ thread.val.num # <<>>
  /\ Less(Zero, At(s_Conversion[thread.cat], thread.to))
  /\ thread.status = "returned" /\ thread.result.num # <<>>

(* C14: symbol round trip.  In every category, for every unit U whose      *)
(* canonical symbol Symbol(U) is a key of the alias table,                 *)
(* TryGuessUnit(Symbol(U)) is U.                                           *)
C14_SymbolRoundTrip ==
  (/\ thread.op = "Symbol"
   /\ thread.status = "returned"
   /\ thread.result \in DOMAIN s_Lookup[thread.cat])
    => TryGuessUnit(thread.cat, thread.result) = <<thread.unit>>

(* C15: composition.  In every linear category, for all units A, B, C of   *)
(* the enumeration and every value v, Convert(Convert(v, A, B), B, C) is   *)
(* Convert(v, A, C) in exact arithmetic, whatever the units.               *)
C15_Composition ==
  (LinearConvertDone /\ thread.status = "returned")
    => \A c \in Unit(thread.cat) :
         Equal(Convert(thread.cat, thread.result, thread.to, c),
               Convert(thread.cat, thread.val, thread.from, c))

(* Time::Convert(1, Hour, Minute) has returned 60, and 60 minutes are the  *)
(* 3600 seconds that one hour is.                                          *)
C15_Witness ==
  /\ LinearConvertDone /\ thread.cat = "Time"
  /\ thread.from = Hour /\ thread.to = Minute
  /\ Equal(thread.val, One) /\ Equal(thread.result, Lit(<<60>>, 0))
  /\ Equal(Convert("Time", thread.result, Minute, Second), Lit(<<3600>>, 0))
  /\ Equal(Convert("Time", thread.val, Hour, Second), Lit(<<3600>>, 0))

(* 1852.0 / 60.0: the metres of one arc second at the equator. *)
MetresPerArcSecond == Div(Lit(<<1852>>, 0), Lit(<<60>>, 0))

(* The whole number of degrees of a latitude. *)
Degrees(lat) == CHOOSE d \in LatitudeDegrees : Equal(lat, IntScalar(d))

(* The cosine of a whole number of degrees, from its values at 0, 60, 90,  *)
(* 120 and 180 degrees, its symmetry and its period.                       *)
CosDegrees(d) ==
  CASE d % 360 = 0          -> One
    [] d % 360 \in {60, 300}  -> Lit(<<5>>, 1)
    [] d % 360 \in {90, 270}  -> Zero
    [] d % 360 \in {120, 240} -> Neg(Lit(<<5>>, 1))
    [] d % 360 = 180        -> Neg(One)

GeoDone == thread.op \in {"ArcSecondsToMetres", "MetresToArcSeconds"}

(* C17: ArcSecondsToMetres(a, lat) is a * |cos(lat * pi/180) * (1852/60)|  *)
(* for every a and every latitude; the latitude is 0 when it is left out;  *)
(* at the equator the result is a * 1852/60, and ArcSecondsToMetres(60, 0) *)
(* is 1852.                                                                *)
C17_ArcSecondsToMetres ==
  thread.op = "ArcSecondsToMetres" =>
    /\ thread.status = "returned"
    /\ Equal(thread.result,
             Mul(thread.val,
                 Abs(Mul(CosDegrees(Degrees(thread.lat)), MetresPerArcSecond))))
    /\ ~thread.given => Equal(thread.lat, Zero)
    /\ Equal(thread.lat, Zero) =>
         Equal(thread.result, Mul(thread.val, MetresPerArcSecond))
    /\ (Equal(thread.val, Lit(<<60>>, 0)) /\ Equal(thread.lat, Zero)) =>
         Equal(thread.result, Lit(<<1852>>, 0))

(* ArcSecondsToMetres(60), the latitude left out, has returned 1852. *)
C17_Witness ==
  /\ thread.op = "ArcSecondsToMetres" /\ ~thread.given
  /\ Equal(thread.val, Lit(<<60>>, 0))
  /\ Equal(thread.result, Lit(<<1852>>, 0))

(* C18: at every latitude, those beyond +-90 degrees where the cosine is   *)
(* negative included, the scale that ArcSecondsToMetres and                *)
(* MetresToArcSeconds multiply by is not negative: the result never has    *)
(* the sign opposite to the input's, and an input >= 0 gives a result      *)
(* >= 0.                                                                   *)
C18_ScaleNonNegative ==
  GeoDone =>
    /\ ~Less(thread.scale, Zero)
    /\ Equal(thread.result, Mul(thread.val, thread.scale))
    /\ ~Less(thread.val, Zero) => ~Less(thread.result, Zero)
    /\ Less(thread.val, Zero) => ~Less(Zero, thread.result)

(* MetresToArcSeconds(1, 180) has returned a positive value: the cosine of *)
(* 180 degrees is negative, the scale is not.                              *)
C18_Witness ==
  /\ thread.op = "MetresToArcSeconds"
  /\ Equal(thread.lat, Lit(<<180>>, 0)) /\ Equal(thread.val, One)
  /\ Less(cos(Mul(s_DegreesToRadians, thread.lat)), Zero)
  /\ Less(Zero, thread.scale) /\ Less(Zero, thread.result)

(* C19: the Planck temperature that ClampTemperature uses as its upper     *)
(* bound is 1.42 * 10^35 Kelvin: a Kelvin value above it is clamped to it. *)
C19_PlanckTemperature ==
  (/\ thread.op = "ClampTemperature"
   /\ thread.status = "returned"
   /\ thread.unit = Kelvin
   /\ Less(Lit(<<1420, 0000, 0000, 0000, 0000, 0000, 0000, 0000, 0000>>, 0),
           thread.val))
    => /\ Equal(thread.result,
                Lit(<<1420, 0000, 0000, 0000, 0000, 0000, 0000, 0000, 0000>>, 0))
       /\ Equal(s_PlanckTemperature,
                Lit(<<1420, 0000, 0000, 0000, 0000, 0000, 0000, 0000, 0000>>, 0))

(* C20: at one latitude, MetresToArcSeconds(ArcSecondsToMetres(a, lat),    *)
(* lat) is a * cos(lat)^2, and likewise the other way round; for a # 0 the *)
(* round trip gives a back exactly at the latitudes where |cos(lat)| is 1, *)
(* lat = 0 among them.                                                     *)
C20_GeoRoundTrip ==
  GeoDone =>
    LET c    == cos(Mul(s_DegreesToRadians, thread.lat))
        back == IF thread.op = "ArcSecondsToMetres"
                THEN MetresToArcSeconds(thread.result, thread.lat).result
                ELSE ArcSecondsToMetres(thread.result, thread.lat).result
    IN  /\ Equal(back, Mul(thread.val, Mul(c, c)))
        /\ thread.val.num # <<>> =>
             (Equal(back, thread.val) <=> Equal(Abs(c), One))
        /\ Equal(thread.lat, Zero) => Equal(back, thread.val)

(* ArcSecondsToMetres(1, 60) has returned; taken back through              *)
(* MetresToArcSeconds at 60 degrees it is 1/4, not 1.                      *)
C20_Witness ==
  /\ thread.op = "ArcSecondsToMetres"
  /\ Equal(thread.lat, Lit(<<60>>, 0)) /\ Equal(thread.val, One)
  /\ Equal(MetresToArcSeconds(thread.result, thread.lat).result, Lit(<<25>>, 2))

(* The tables as static initialisation builds them from the initializer    *)
(* lists.                                                                  *)
TablesAsConstructed ==
  \E policy \in DuplicateKeyPolicies :
    /\ s_Lookup = [cat \in Categories |-> Hashmap(LookupItems(cat), policy)]
    /\ s_Symbol = [cat \in Categories |-> Hashmap(SymbolItems(cat), policy)]
    /\ s_Conversion =
         [cat \in LinearCategories |-> Hashmap(ConversionItems(cat), policy)]

(* What a call returns (or throws) when it is the only one running. *)
Alone(c) ==
  CASE c.op = "TryGuessUnit"       -> Returned(TryGuessUnit(c.cat, c.symbol))
    [] c.op = "Symbol"             -> Returned(Symbol(c.cat, c.unit))
    [] c.op = "Convert"            ->
         IF c.cat = "Temperature"
         THEN Temperature_Convert(c.val, c.from, c.to)
         ELSE Returned(Convert(c.cat, c.val, c.from, c.to))
    [] c.op = "ClampTemperature"   -> ClampTemperature(c.val, c.unit)
    [] c.op = "ArcSecondsToMetres" -> ArcSecondsToMetres(c.val, LatOf(c.arg))
    [] c.op = "MetresToArcSeconds" -> MetresToArcSeconds(c.val, LatOf(c.arg))

(* Every call that has run holds the result it gives when it runs alone    *)
(* with the same arguments.                                                *)
ResultsAsAlone ==
  \A t \in Threads :
    callers[t].outcome # <<>>
      => callers[t].outcome[1] = Alone(callers[t].call[1])

(* C16: no function (TryGuessUnit, Convert, Symbol, ClampTemperature,      *)
(* ArcSecondsToMetres, MetresToArcSeconds) modifies an alias, symbol or    *)
(* factor table.  Whatever calls concurrent callers make, however their    *)
(* steps interleave: no step changes a table, and before every step (a     *)
(* caller can take one in every state) the tables are the ones static      *)
(* initialisation built and each call that has run holds the result it     *)
(* gives when it runs alone with the same arguments.                       *)
C16_TablesReadOnly ==
  [][UNCHANGED tables /\ TablesAsConstructed /\ ResultsAsAlone]_vars

(* Two callers are in TryGuessUnit("in3") of Volume at once: one has its   *)
(* result, the other has entered and not run yet.                          *)
C16_Witness ==
  /\ callers["t1"].call # <<>> /\ callers["t2"].call # <<>>
  /\ callers["t1"].call = callers["t2"].call
  /\ callers["t1"].call[1].op = "TryGuessUnit"
  /\ callers["t1"].call[1].cat = "Volume"
  /\ callers["t1"].call[1].symbol = "in3"
  /\ callers["t1"].outcome # <<>> /\ callers["t2"].outcome = <<>>

(* C21: for every source unit among Celsius, Fahrenheit and Kelvin and     *)
(* every value v, the result of Temperature::Convert is never below what   *)
(* the destination formula makes of 0 K: a result in Kelvin is at least 0, *)
(* a result in Fahrenheit at least -459.67, and a result in Celsius at     *)
(* least 273.15 (the destination formula adds 273.15).                     *)
C21_ResultFloor ==
  TemperatureConvertReturned =>
    /\ thread.to = Kelvin     => ~Less(thread.result, Zero)
    /\ thread.to = Fahrenheit => ~Less(thread.result, Neg(Lit(<<4, 5967>>, 2)))
    /\ thread.to = Celsius    => ~Less(thread.result, Lit(<<2, 7315>>, 2))

(* Convert(-500, Fahrenheit, Celsius): the intermediate is below 0 K and   *)
(* the thread has returned exactly the Celsius floor, 273.15.              *)
C21_Witness ==
  /\ TemperatureConvertReturned
  /\ Equal(thread.val, Neg(Lit(<<500>>, 0)))
  /\ thread.from = Fahrenheit /\ thread.to = Celsius
  /\ Less(thread.kelvin, Zero)
  /\ Equal(thread.result, Lit(<<2, 7315>>, 2))

=============================================================================
